---- MODULE Spec2Model ----
(***************************************************************************)
(* State-machine model of end_to_end/music_recommendation/                 *)
(* 05_model_monitor.ipynb: a run of the notebook's code cells from top to  *)
(* bottom against the SageMaker control plane.  One action per SDK call or *)
(* statement of the code cells; the service (processing-job registry,      *)
(* monitoring-schedule status, calls that raise) is the environment.       *)
(* A cell that raises ends the run (pc = "error"): "Run All" stops at the  *)
(* first failing cell.                                                     *)
(***************************************************************************)
EXTENDS Integers, Sequences, FiniteSets, TLC

\* ---------------------------------------------------------------- bounds
\* polls and sleeps are counted up to MaxPolls and then stay there, so that
\* the polling loop itself is never cut short by the bound.
MaxPolls == 3
\* number of processing jobs already in the account when the run starts
MaxPrior == 2

\* ------------------------------------------------------ notebook values
None == "None"

prefix == "music-rec"
datetime_stamp == "2021-01-01-000000"
endpoint_name == "music-rec-endpoint"
s3_report_path == "s3://bucket/music-rec/monitor/report"
mon_schedule_name == "music-rec-monitor-schedule-2021-01-01-000100"

\* job_name=f"{prefix}-monitor-baseline-{datetime_stamp}", as a token sequence
BaselineJobName == <<prefix, "-monitor-baseline-", datetime_stamp>>

\* ------------------------------------------------------------ job lookup
\* Python/boto3 substring match (NameContains): sub occurs contiguously in name
Contains(name, sub) ==
    \E i \in 0..(Len(name) - Len(sub)) : SubSeq(name, i + 1, i + Len(sub)) = sub

\* the job of a set with the latest creation time
Latest(S) == CHOOSE j \in S : \A k \in S : k.CreationTime <= j.CreationTime
Earliest(S) == CHOOSE j \in S : \A k \in S : k.CreationTime >= j.CreationTime

RECURSIVE SortDescending(_)
SortDescending(S) ==
    IF S = {} THEN <<>> ELSE <<Latest(S)>> \o SortDescending(S \ {Latest(S)})

RECURSIVE SortAscending(_)
SortAscending(S) ==
    IF S = {} THEN <<>> ELSE <<Earliest(S)>> \o SortAscending(S \ {Earliest(S)})

\* SortBy='CreationTime', SortOrder='Descending'
SortByCreationTime(S) == SortDescending(S)

\* StatusEquals='Completed'
StatusEquals == "Completed"

\* MaxResults=20
MaxResults == 20

\* client.list_processing_jobs(NameContains=..., StatusEquals=..., SortBy=...,
\* SortOrder=..., MaxResults=...) ['ProcessingJobSummaries'] over registry reg
list_processing_jobs(reg) ==
    LET matching == {j \in reg : Contains(j.ProcessingJobName, BaselineJobName)
                                 /\ j.ProcessingJobStatus = StatusEquals}
        sorted == SortByCreationTime(matching)
    IN  SubSeq(sorted, 1, IF Len(sorted) < MaxResults THEN Len(sorted) ELSE MaxResults)

\* no job name: my_default_monitor_name before it is assigned
NoName == <<>>

\* get_last_processing_job(): element [0] of the summaries; indexing an
\* empty list raises IndexError
get_last_processing_job(reg) ==
    LET summaries == list_processing_jobs(reg)
    IN  IF Len(summaries) = 0
        THEN [raised |-> TRUE, name |-> NoName]
        ELSE [raised |-> FALSE, name |-> summaries[1].ProcessingJobName]

\* Processing jobs that may already exist in the account: an earlier run
\* (other time stamp), jobs whose names extend this run's job name, and a job
\* named after base_job_name.
PriorJobs ==
    { [ProcessingJobName |-> <<prefix, "-monitor-baseline-", "2020-12-31-235959">>,
       ProcessingJobStatus |-> "Completed", CreationTime |-> 1],
      [ProcessingJobName |-> <<"copy-", prefix, "-monitor-baseline-", datetime_stamp>>,
       ProcessingJobStatus |-> "Completed", CreationTime |-> 2],
      [ProcessingJobName |-> <<prefix, "-monitor-baseline-", datetime_stamp, "-rerun">>,
       ProcessingJobStatus |-> "Completed", CreationTime |-> 5],
      [ProcessingJobName |-> <<prefix, "-monitor-baseline-", datetime_stamp, "-retry">>,
       ProcessingJobStatus |-> "InProgress", CreationTime |-> 6],
      [ProcessingJobName |-> <<prefix, "-monitor-", datetime_stamp>>,
       ProcessingJobStatus |-> "Completed", CreationTime |-> 7] }

\* the job suggest_baseline starts, with the status it ended in
BaselineJob(st) ==
    [ProcessingJobName |-> BaselineJobName, ProcessingJobStatus |-> st,
     CreationTime |-> 3]

\* --------------------------------------------------- schedule requests
\* CronExpressionGenerator.daily()
DailyCron == "cron(0 0 ? * * *)"

\* keyword arguments of create_monitoring_schedule (None: not passed)
CreateRequestNoBaseline ==
    [api |-> "create_monitoring_schedule",
     monitor_schedule_name |-> mon_schedule_name,
     endpoint_input |-> endpoint_name,
     output_s3_uri |-> s3_report_path,
     statistics |-> None,
     constraints |-> None,
     schedule_cron_expression |-> DailyCron,
     enable_cloudwatch_metrics |-> "True"]
CreateRequest ==
    [api |-> "create_monitoring_schedule",
     monitor_schedule_name |-> mon_schedule_name,
     endpoint_input |-> endpoint_name,
     output_s3_uri |-> s3_report_path,
     statistics |-> "baseline_statistics",
     constraints |-> "suggested_constraints",
     schedule_cron_expression |-> DailyCron,
     enable_cloudwatch_metrics |-> "True"]

\* keyword arguments of update_monitoring_schedule (None: not passed)
UpdateRequest ==
    [api |-> "update_monitoring_schedule",
     monitor_schedule_name |-> None,
     endpoint_input |-> endpoint_name,
     output_s3_uri |-> None,
     statistics |-> None,
     constraints |-> None,
     schedule_cron_expression |-> DailyCron,
     enable_cloudwatch_metrics |-> "True"]

\* the bare "except:" catches whatever the try block raised
ExceptNarrow(cause) == cause = "create_monitoring_schedule"
ExceptCatches(cause) == TRUE

\* --------------------------------------------------------- polling loop
Statuses == {"Pending", "Scheduled", "Failed", "Stopped"}

\* while desc_schedule_result['MonitoringScheduleStatus'] != 'Scheduled'
LoopConditionPending(status) == status = "Pending"
LoopConditionCompleted(status) == status # "Completed"
LoopCondition(status) == status # "Scheduled"

\* time.sleep(30), whatever the number n of polls made so far
SleepBackoff(n) == 30 * n
SleepSeconds(n) == 30

\* 'Schedule status: {}'.format(status)
StatusLine(status) == <<"Schedule status: ", status>>

Bump(n) == IF n < MaxPolls THEN n + 1 ELSE n

\* ------------------------------------------------------------------ state
VARIABLES
    pc,                      \* the statement the run is at
    err,                     \* the call whose exception ended the run, or None
    called,                  \* SDK calls made so far
    returned,                \* SDK calls that returned without raising
    jobs,                    \* the account's processing jobs
    my_default_monitor_name, \* result of get_last_processing_job()
    requests,                \* schedule requests submitted, in order
    raiseCause,              \* what raised inside the try block, or None
    updateCalls,             \* calls of update_monitoring_schedule
    regOutput,               \* lines printed by the create/update cell
    schedStatus,             \* the service's MonitoringScheduleStatus
    settled,                 \* the service never leaves schedStatus again
    desc_schedule_result,    \* status in the last describe_schedule result
    polls,                   \* describe_schedule calls that returned
    sleeps,                  \* time.sleep calls made
    gap,                     \* sleeps since the last describe_schedule call
    lastGap,                 \* sleeps between the last two describe calls, -1: n/a
    lastSleep,               \* seconds of the last sleep, 0: none yet
    lastLine,                \* last line printed by the polling cell
    finalPrinted             \* the print after the loop has run

ctlVars == <<pc, err, called, returned>>
jobVars == <<jobs, my_default_monitor_name>>
regVars == <<requests, raiseCause, updateCalls, regOutput>>
svcVars == <<schedStatus, settled>>
pollVars == <<desc_schedule_result, polls, sleeps, gap, lastGap, lastSleep,
              lastLine, finalPrinted>>
vars == <<pc, err, called, returned, jobs, my_default_monitor_name, requests,
          raiseCause, updateCalls, regOutput, schedStatus, settled,
          desc_schedule_result, polls, sleeps, gap, lastGap, lastSleep,
          lastLine, finalPrinted>>

PollCell == {"poll_first", "poll_while", "poll_print", "poll_describe",
             "poll_sleep", "poll_final"}

Init ==
    /\ pc = "update_data_capture_config"
    /\ err = None
    /\ called = {}
    /\ returned = {}
    /\ jobs \in {S \in SUBSET PriorJobs : Cardinality(S) <= MaxPrior}
    /\ my_default_monitor_name = NoName
    /\ requests = <<>>
    /\ raiseCause = None
    /\ updateCalls = 0
    /\ regOutput = <<>>
    /\ schedStatus = None
    /\ settled = FALSE
    /\ desc_schedule_result = None
    /\ polls = 0
    /\ sleeps = 0
    /\ gap = 0
    /\ lastGap = -1
    /\ lastSleep = 0
    /\ lastLine = <<>>
    /\ finalPrinted = FALSE

\* ------------------------------------------------------- straight line
\* the statement that follows when `step` returns normally, cells top to bottom
AfterSkipWait(step) ==
    CASE step = "update_data_capture_config" -> "suggest_baseline"
      [] step = "wait_for_endpoint" -> "suggest_baseline"
      [] step = "suggest_baseline" -> "get_last_processing_job"
      [] step = "get_last_processing_job" -> "inspect_artifacts"
      [] step = "inspect_artifacts" -> "create_monitoring_schedule"
      [] step = "create_monitoring_schedule" -> "poll_first"
      [] step = "update_monitoring_schedule" -> "poll_first"
After(step) ==
    CASE step = "update_data_capture_config" -> "wait_for_endpoint"
      [] step = "wait_for_endpoint" -> "suggest_baseline"
      [] step = "suggest_baseline" -> "get_last_processing_job"
      [] step = "get_last_processing_job" -> "inspect_artifacts"
      [] step = "inspect_artifacts" -> "create_monitoring_schedule"
      [] step = "create_monitoring_schedule" -> "poll_first"
      [] step = "update_monitoring_schedule" -> "poll_first"

\* a call that returns (ok) or raises: an uncaught exception ends the run
Call(c, ok) ==
    /\ called' = called \cup {c}
    /\ IF ok
       THEN /\ returned' = returned \cup {c}
            /\ pc' = After(c)
            /\ err' = err
       ELSE /\ returned' = returned
            /\ pc' = "error"
            /\ err' = c

\* predictor.update_data_capture_config(data_capture_config=...)
UpdateDataCaptureConfig ==
    /\ pc = "update_data_capture_config"
    /\ \E ok \in BOOLEAN : Call("update_data_capture_config", ok)
    /\ UNCHANGED <<jobVars, regVars, svcVars, pollVars>>

\* sm_session.wait_for_endpoint(endpoint=endpoint_name)
WaitForEndpoint ==
    /\ pc = "wait_for_endpoint"
    /\ \E ok \in BOOLEAN : Call("wait_for_endpoint", ok)
    /\ UNCHANGED <<jobVars, regVars, svcVars, pollVars>>

\* my_default_monitor.suggest_baseline(..., job_name=..., wait=True): the job
\* is not started (the request raises), or it is started and ends Completed,
\* Stopped (the SDK warns and returns) or Failed (the SDK raises)
SuggestBaseline ==
    /\ pc = "suggest_baseline"
    /\ \E st \in {"NotStarted", "Completed", "Stopped", "Failed"} :
          /\ jobs' = IF st = "NotStarted" THEN jobs ELSE jobs \cup {BaselineJob(st)}
          /\ Call("suggest_baseline", st \in {"Completed", "Stopped"})
    /\ UNCHANGED <<my_default_monitor_name, regVars, svcVars, pollVars>>

\* my_default_monitor_name = get_last_processing_job()
GetLastProcessingJob ==
    /\ pc = "get_last_processing_job"
    /\ LET r == get_last_processing_job(jobs)
       IN  /\ Call("get_last_processing_job", ~r.raised)
           /\ my_default_monitor_name' =
                 IF r.raised THEN my_default_monitor_name ELSE r.name
    /\ UNCHANGED <<jobs, regVars, svcVars, pollVars>>

\* describe_processing_job, baseline_statistics(), suggested_constraints() cells
InspectArtifacts ==
    /\ pc = "inspect_artifacts"
    /\ \E ok \in BOOLEAN : Call("inspect_artifacts", ok)
    /\ UNCHANGED <<jobVars, regVars, svcVars, pollVars>>

\* -------------------------------------------- create / update schedule
\* what can go wrong inside the try block, in evaluation order: the two
\* argument expressions, then the call itself
TryRaises == {"baseline_statistics", "suggested_constraints",
              "create_monitoring_schedule"}

\* try: create_monitoring_schedule(...); print("Created ...")  except: ...
TryCreate ==
    /\ pc = "create_monitoring_schedule"
    /\ \/ /\ called' = called \cup {"create_monitoring_schedule"}
          /\ returned' = returned \cup {"create_monitoring_schedule"}
          /\ requests' = Append(requests, CreateRequest)
          /\ regOutput' = Append(regOutput, "Created")
          /\ schedStatus' = "Pending"
          /\ pc' = After("create_monitoring_schedule")
          /\ UNCHANGED <<err, raiseCause>>
       \/ \E cause \in TryRaises :
             /\ raiseCause' = cause
             /\ IF cause = "create_monitoring_schedule"
                THEN /\ called' = called \cup {cause}
                     /\ requests' = Append(requests, CreateRequest)
                ELSE UNCHANGED <<called, requests>>
             /\ IF ExceptCatches(cause)
                THEN pc' = "update_monitoring_schedule" /\ err' = err
                ELSE pc' = "error" /\ err' = cause
             /\ UNCHANGED <<returned, regOutput, schedStatus>>
    /\ UNCHANGED <<jobVars, updateCalls, settled, pollVars>>

\* the cell's output after the except block: the print follows the call
OutputPrintFirst(ok, out) == Append(out, "Updated")
OutputAfterUpdate(ok, out) == IF ok THEN Append(out, "Updated") ELSE out

\* except: update_monitoring_schedule(...); print("Updated ...")
ExceptUpdate ==
    /\ pc = "update_monitoring_schedule"
    /\ updateCalls' = updateCalls + 1
    /\ requests' = Append(requests, UpdateRequest)
    /\ \E ok \in BOOLEAN :
          /\ Call("update_monitoring_schedule", ok)
          /\ regOutput' = OutputAfterUpdate(ok, regOutput)
          /\ schedStatus' = IF ok THEN "Pending" ELSE schedStatus
    /\ UNCHANGED <<jobVars, raiseCause, settled, pollVars>>

\* ------------------------------------------------------------- polling
\* no try/except surrounds describe_schedule: its exception ends the cell
OnDescribeRaiseRetry == "poll_sleep"
OnDescribeRaise == "error"

\* desc_schedule_result = my_default_monitor.describe_schedule()  (before the loop)
PollFirst ==
    /\ pc = "poll_first"
    /\ called' = called \cup {"describe_schedule"}
    /\ \/ /\ returned' = returned \cup {"describe_schedule"}
          /\ desc_schedule_result' = schedStatus
          /\ polls' = Bump(polls)
          /\ gap' = 0
          /\ pc' = "poll_while"
          /\ err' = err
       \/ /\ pc' = OnDescribeRaise
          /\ err' = "describe_schedule"
          /\ UNCHANGED <<returned, desc_schedule_result, polls, gap>>
    /\ UNCHANGED <<jobVars, regVars, svcVars, sleeps, lastGap, lastSleep,
                   lastLine, finalPrinted>>

\* while desc_schedule_result['MonitoringScheduleStatus'] != 'Scheduled':
PollWhile ==
    /\ pc = "poll_while"
    /\ pc' = IF LoopCondition(desc_schedule_result) THEN "poll_print" ELSE "poll_final"
    /\ UNCHANGED <<err, called, returned, jobVars, regVars, svcVars, pollVars>>

\* print('Schedule status: {}'.format(...))  (inside the loop)
PollPrint ==
    /\ pc = "poll_print"
    /\ lastLine' = StatusLine(desc_schedule_result)
    /\ pc' = "poll_describe"
    /\ UNCHANGED <<err, called, returned, jobVars, regVars, svcVars,
                   desc_schedule_result, polls, sleeps, gap, lastGap, lastSleep,
                   finalPrinted>>

\* desc_schedule_result = my_default_monitor.describe_schedule()  (inside the loop)
PollDescribe ==
    /\ pc = "poll_describe"
    /\ called' = called \cup {"describe_schedule"}
    /\ \/ /\ returned' = returned \cup {"describe_schedule"}
          /\ desc_schedule_result' = schedStatus
          /\ polls' = Bump(polls)
          /\ lastGap' = gap
          /\ gap' = 0
          /\ pc' = "poll_sleep"
          /\ err' = err
       \/ /\ pc' = OnDescribeRaise
          /\ err' = "describe_schedule"
          /\ UNCHANGED <<returned, desc_schedule_result, polls, lastGap, gap>>
    /\ UNCHANGED <<jobVars, regVars, svcVars, sleeps, lastSleep, lastLine,
                   finalPrinted>>

\* time.sleep(30)
PollSleep ==
    /\ pc = "poll_sleep"
    /\ lastSleep' = SleepSeconds(polls)
    /\ sleeps' = Bump(sleeps)
    /\ gap' = IF gap < 2 THEN gap + 1 ELSE gap
    /\ pc' = "poll_while"
    /\ UNCHANGED <<err, called, returned, jobVars, regVars, svcVars,
                   desc_schedule_result, polls, lastGap, lastLine, finalPrinted>>

\* print('Schedule status: {}'.format(...))  (after the loop)
PollFinal ==
    /\ pc = "poll_final"
    /\ lastLine' = StatusLine(desc_schedule_result)
    /\ finalPrinted' = TRUE
    /\ pc' = "done"
    /\ UNCHANGED <<err, called, returned, jobVars, regVars, svcVars,
                   desc_schedule_result, polls, sleeps, gap, lastGap, lastSleep>>

\* ------------------------------------------------------ the service
\* statuses the service can stay in for good
Permanent == {"Scheduled", "Failed", "Stopped"}

\* the schedule's status changes while the notebook polls
ServiceTransition ==
    /\ pc \in PollCell
    /\ ~settled
    /\ \E s \in Statuses \ {schedStatus} : schedStatus' = s
    /\ UNCHANGED <<ctlVars, jobVars, regVars, settled, pollVars>>

\* from here on the status never changes again
ServiceSettle ==
    /\ pc \in PollCell
    /\ ~settled
    /\ schedStatus \in Permanent
    /\ settled' = TRUE
    /\ UNCHANGED <<ctlVars, jobVars, regVars, schedStatus, pollVars>>

\* ------------------------------------------------------ specification
Notebook ==
    \/ UpdateDataCaptureConfig
    \/ WaitForEndpoint
    \/ SuggestBaseline
    \/ GetLastProcessingJob
    \/ InspectArtifacts
    \/ TryCreate
    \/ ExceptUpdate
    \/ PollFirst
    \/ PollWhile
    \/ PollPrint
    \/ PollDescribe
    \/ PollSleep
    \/ PollFinal

Next == Notebook \/ ServiceTransition \/ ServiceSettle

Spec == Init /\ [][Next]_vars

\* the kernel keeps executing the cell: a blocking call returns or raises
FairSpec == Spec /\ WF_vars(Notebook)

\* ==================================================================
\* Properties
\* ==================================================================
Matching(reg) ==
    {j \in reg : j.ProcessingJobStatus = "Completed" /\ Contains(j.ProcessingJobName, BaselineJobName)}

Registered ==
    "create_monitoring_schedule" \in returned
    \/ "update_monitoring_schedule" \in returned

\* C1: the phases run in order.  The baselining job is started only after
\* update_data_capture_config and wait_for_endpoint have returned; the
\* creation of the schedule is attempted only after suggest_baseline has
\* returned; describe_schedule is called only after create_monitoring_schedule
\* or update_monitoring_schedule has returned without raising.
C1_PhaseOrder ==
    /\ "suggest_baseline" \in called
          => {"update_data_capture_config", "wait_for_endpoint"} \subseteq returned
    /\ (raiseCause # None \/ "create_monitoring_schedule" \in called
        \/ pc = "create_monitoring_schedule")
          => "suggest_baseline" \in returned
    /\ ("describe_schedule" \in called \/ pc \in PollCell) => Registered

C1_Witness ==
    /\ pc = "done"
    /\ "update_monitoring_schedule" \in returned
    /\ "suggest_baseline" \in returned

\* C2: once the service has settled for good in a status, whichever it is,
\* the polling cell eventually ends (it finishes, or describe_schedule raises).
C2_PollUntilTerminal ==
    (settled /\ pc \in PollCell) ~> (pc \in {"done", "error"})

\* C3: update_monitoring_schedule is called if and only if the try block
\* raised, whatever raised in it; at most once; with the same arguments
\* whatever the cause; and never when create_monitoring_schedule returned.
C3_CatchAllFallback ==
    /\ updateCalls <= 1
    /\ updateCalls = 1 => raiseCause # None
    /\ (raiseCause # None /\ pc # "update_monitoring_schedule") => updateCalls = 1
    /\ "create_monitoring_schedule" \in returned => updateCalls = 0
    /\ \A i \in 1..Len(requests) :
          requests[i].api = "update_monitoring_schedule"
             => /\ requests[i].endpoint_input = endpoint_name
                /\ requests[i].schedule_cron_expression = DailyCron
                /\ requests[i].enable_cloudwatch_metrics = "True"

C3_Witness ==
    /\ updateCalls = 1
    /\ raiseCause = "suggested_constraints"
    /\ "update_monitoring_schedule" \in returned

\* C4 as claimed: every schedule request submitted, created or updated,
\* carries the cron cadence, the baseline statistics and constraints, the
\* endpoint and the output location.
C4_EveryRequestComplete ==
    \A i \in 1..Len(requests) :
       /\ requests[i].schedule_cron_expression # None
       /\ requests[i].statistics # None
       /\ requests[i].constraints # None
       /\ requests[i].endpoint_input # None
       /\ requests[i].output_s3_uri # None

\* C4 amended: every request carries the cron cadence and the endpoint; the
\* create request also carries the baseline statistics, the constraints and
\* the output location, and the update request carries none of these three.
C4_RequestParts ==
    \A i \in 1..Len(requests) :
       /\ requests[i].schedule_cron_expression = DailyCron
       /\ requests[i].endpoint_input = endpoint_name
       /\ requests[i].api = "create_monitoring_schedule"
             => /\ requests[i].statistics # None
                /\ requests[i].constraints # None
                /\ requests[i].output_s3_uri = s3_report_path
       /\ requests[i].api = "update_monitoring_schedule"
             => /\ requests[i].statistics = None
                /\ requests[i].constraints = None
                /\ requests[i].output_s3_uri = None

C4_Witness ==
    /\ Len(requests) = 2
    /\ requests[1].api = "create_monitoring_schedule"
    /\ requests[2].api = "update_monitoring_schedule"

\* C5 as claimed: any two consecutive describe_schedule calls, the one before
\* the loop and the first one inside it included, are separated by exactly
\* one sleep, and every sleep lasts 30 seconds.
C5_OneSleepBetweenPolls ==
    /\ lastGap # -1 => lastGap = 1
    /\ sleeps > 0 => lastSleep = 30

\* C5 amended: two consecutive describe_schedule calls made inside the loop
\* are separated by exactly one sleep; the call before the loop and the first
\* call inside it are separated by no sleep; every sleep lasts 30 seconds.
C5_FixedInterval ==
    /\ polls = 2 => lastGap = 0
    /\ polls >= 3 => lastGap = 1
    /\ polls <= 1 => lastGap = -1
    /\ sleeps > 0 => lastSleep = 30
    /\ sleeps = 0 => lastSleep = 0

C5_Witness ==
    /\ polls >= 3
    /\ sleeps >= 3
    /\ lastGap = 1
    /\ pc = "done"

\* C6: the polling cell finishes normally only with the last describe_schedule
\* result 'Scheduled' and 'Schedule status: Scheduled' as the last line printed.
C6_ExitOnlyOnScheduled ==
    (pc = "done" \/ finalPrinted)
       => /\ desc_schedule_result = "Scheduled"
          /\ lastLine = <<"Schedule status: ", "Scheduled">>

C6_Witness ==
    /\ pc = "done"
    /\ polls >= 2
    /\ schedStatus = "Failed"

\* C7: when a describe_schedule call raises, the polling cell stops there:
\* the call is not retried, nothing sleeps and the final status line is
\* not printed.
C7_NoFailureHandling ==
    /\ [](err = "describe_schedule" => pc = "error" /\ ~finalPrinted)
    /\ [][err = "describe_schedule"
            => ~(PollFirst \/ PollDescribe \/ PollSleep \/ PollPrint \/ PollFinal)]_vars

C7_Witness ==
    /\ err = "describe_schedule"
    /\ polls >= 2
    /\ sleeps >= 1

\* C8 as claimed: once describe_schedule has returned 'Scheduled' the polling
\* cell neither sleeps nor calls describe_schedule again.
C8_NothingAfterScheduled ==
    [][desc_schedule_result = "Scheduled" => ~(PollSleep \/ PollDescribe \/ PollFirst)]_vars

\* C8 amended: once describe_schedule has returned 'Scheduled' the polling
\* cell makes no further describe_schedule call; it makes no further sleep
\* when that call was the one before the loop, and exactly one further sleep
\* when that call was made inside the loop.  If the first describe_schedule
\* returns 'Scheduled' the cell ends with zero sleeps.
C8_AtMostTrailingSleep ==
    /\ [][desc_schedule_result = "Scheduled" => ~(PollDescribe \/ PollFirst)]_vars
    /\ [][(desc_schedule_result = "Scheduled" /\ PollSleep) => (polls >= 2 /\ gap = 0)]_vars
    /\ []((desc_schedule_result = "Scheduled" /\ polls = 1) => (gap = 0 /\ sleeps = 0))
    /\ []((desc_schedule_result = "Scheduled" /\ polls >= 2 /\ pc # "poll_sleep")
             => gap = 1)

C8_Witness ==
    /\ pc = "done"
    /\ polls >= 2
    /\ gap = 1

\* C9: when the create/update cell finishes normally exactly one of 'Created'
\* and 'Updated' has been printed, the one of the call that returned; when
\* both calls raise nothing is printed, the error of the update ends the run
\* and the polling loop is never entered.
C9_RegistrationOutput ==
    /\ Registered
          => /\ Len(regOutput) = 1
             /\ regOutput[1] = "Created" <=> "create_monitoring_schedule" \in returned
             /\ regOutput[1] = "Updated" <=> "update_monitoring_schedule" \in returned
    /\ err = "update_monitoring_schedule"
          => /\ regOutput = <<>>
             /\ raiseCause # None
             /\ pc = "error"
             /\ "describe_schedule" \notin called
             /\ polls = 0

C9_Witness ==
    /\ err = "update_monitoring_schedule"
    /\ raiseCause = "create_monitoring_schedule"

\* C10: get_last_processing_job returns the name of the most recently created
\* job among the Completed jobs whose name contains the baseline job name;
\* when there is no such job it raises and returns nothing.
C10_LastCompletedBaselineJob ==
    /\ my_default_monitor_name # NoName
          => \E j \in Matching(jobs) :
                /\ j.ProcessingJobName = my_default_monitor_name
                /\ \A k \in Matching(jobs) : k.CreationTime <= j.CreationTime
    /\ ("get_last_processing_job" \in called /\ Matching(jobs) = {})
          => /\ err = "get_last_processing_job"
             /\ my_default_monitor_name = NoName
    /\ ("get_last_processing_job" \in called /\ Matching(jobs) # {})
          => my_default_monitor_name # NoName

C10_Witness ==
    /\ my_default_monitor_name = <<prefix, "-monitor-baseline-", datetime_stamp, "-rerun">>
    /\ Cardinality(Matching(jobs)) = 3
    /\ \E j \in jobs : j.ProcessingJobName = BaselineJobName /\ j.ProcessingJobStatus = "Completed"
====
